---- MODULE Spec2Model ----
(***************************************************************************)
(* The stance dataset loader of transformer.ipynb: _stance (read, clean,   *)
(* filter by topic, encode the labels) and stance (load both files and     *)
(* split the training data into train and validation).                     *)
(*                                                                         *)
(* A parsed file (the DataFrame pd.read_csv returns) is a record           *)
(*   [cols |-> the header's column names, recs |-> the rows in file order] *)
(* and a row is [i, Tweet, Target, Stance]: i is the row's index label,    *)
(* Tweet the sequence of code points latin-1 decoding gives (one per       *)
(* byte), Target and Stance strings.  An empty field is parsed as NaN: an  *)
(* empty Tweet is <<>> and an empty Stance is "".                          *)
(*                                                                         *)
(* out is the last call with its result; prev is the stance call made just *)
(* before it when both are stance calls (NoCall otherwise).                *)
(***************************************************************************)
EXTENDS Integers, Sequences, FiniteSets, TLC

VARIABLES trainfile, testfile, seed, np_random, out, prev

vars == <<trainfile, testfile, seed, np_random, out, prev>>

\* ---------------------------------------------------------------- bounds
\* Longest file of the exhaustive family (Init).
MaxRows == 2
\* Longest training file of the split family (InitSplit).
MaxTrain == 10

\* ------------------------------------------------------------- constants
\* ord(i) < 128
AsciiLimit == 128
\* test_size=0.2, as the fraction TestSizeNum / TestSizeDen
TestSizeNum == 1
TestSizeDen == 5

None == "None"
\* A name that is not bound yet (the global seed before line 223 has run), and
\* the keyword default random_state=None: the empty set; a value v is {v}.
Undefined == {}
NoError == "NoError"
NoKey == "NoKey"

Min(a, b) == IF a < b THEN a ELSE b

\* The sequence with the elements of f, each one computed: a list or an array.
List(f) == SubSeq(f, 1, Len(f))

\* The i-th smallest element of a set of numbers.
Nth(S, i) == CHOOSE k \in S : Cardinality({j \in S : j <= k}) = i

\* ------------------------------------------------------------ the inputs
TopicArgs == {None, "Atheism"}
Seeds == {42, 43}
AllCols == {"Tweet", "Target", "Stance"}

Row(tw, tg, st) == [Tweet |-> tw, Target |-> tg, Stance |-> st]

\* Rows of the exhaustive family: tweets with code points on both sides of
\* 128, targets that differ in case only, every label of the fixed set and
\* values outside it.
SampleRows ==
  { Row(<<65, 233, 66>>, "Atheism", "AGAINST"),
    Row(<<128, 127>>, "Hillary Clinton", "FAVOR"),
    Row(<<233>>, "atheism", "NONE"),
    Row(<<66>>, "Atheism", "UNKNOWN"),
    Row(<<67, 255>>, "Atheism", "MAYBE"),
    Row(<<>>, "Hillary Clinton", ""),
    Row(<<68>>, "Hillary Clinton", "MAYBE") }

RowSeqs(S, n) == UNION { [1..k -> S] : k \in 0..n }

\* pd.read_csv numbers the rows 0, 1, ...; here 1, 2, ...
Frame(cols, rows) ==
  [cols |-> cols,
   recs |-> List([k \in 1..Len(rows) |->
                    [i |-> k, Tweet |-> rows[k].Tweet, Target |-> rows[k].Target,
                     Stance |-> rows[k].Stance]])]

\* Headers that lack one of the three columns.
ShortCols == {AllCols \ {"Stance"}, AllCols \ {"Target"}, AllCols \ {"Tweet"}}

\* Every file of at most MaxRows sample rows under the full header, and every
\* file of at most one sample row under a header that lacks a column.
Files ==
  { Frame(AllCols, r) : r \in RowSeqs(SampleRows, MaxRows) }
    \cup { Frame(c, r) : c \in ShortCols, r \in RowSeqs(SampleRows, 1) }

\* The test files: one like the released test data (every Stance is UNKNOWN),
\* one with no Stance column, one whose Stance is empty, and one with no row
\* for "Atheism".
TestFiles ==
  { Frame(AllCols, <<Row(<<84, 233>>, "Atheism", "UNKNOWN"),
                     Row(<<85>>, "Hillary Clinton", "UNKNOWN")>>),
    Frame(AllCols \ {"Stance"}, <<Row(<<84, 233>>, "Atheism", "")>>),
    Frame(AllCols, <<Row(<<84>>, "Atheism", "")>>),
    Frame(AllCols, <<Row(<<85>>, "Hillary Clinton", "UNKNOWN")>>) }

\* ------------------------------------------------------------- _stance
\* ord(i) <= 128 in place of ord(i) < 128.
keep_ascii_le(c) == c <= AsciiLimit

\* clean_ascii: ''.join(i for i in text if ord(i) < 128)
keep_ascii(c) == c < AsciiLimit

clean_ascii(text) == SelectSeq(text, keep_ascii)

\* An empty field is NaN, a float: iterating it in clean_ascii raises.
IsNaN(text) == text = <<>>

lower(s) == IF s = "Atheism" THEN "atheism" ELSE s

\* df['Target'].str.lower() == topic.lower() in place of df['Target'] == topic.
target_eq_nocase(target, topic) == lower(target) = lower(topic)

\* df.loc[df['Target'] == topic]
target_eq(target, topic) == target = topic

RECURSIVE loc(_, _)
loc(recs, topic) ==
  IF recs = <<>> THEN <<>>
  ELSE IF target_eq(Head(recs).Target, topic)
       THEN <<Head(recs)>> \o loc(Tail(recs), topic)
       ELSE loc(Tail(recs), topic)

\* The list in another order.
stances_reordered == <<"FAVOR", "AGAINST", "NONE", "UNKNOWN">>

\* stances = ["AGAINST", "FAVOR", "NONE", "UNKNOWN"]
stances == <<"AGAINST", "FAVOR", "NONE", "UNKNOWN">>

\* class_nums = {s: i for i, s in enumerate(stances)}
class_nums == [s \in {stances[k] : k \in 1..Len(stances)} |->
                 (CHOOSE k \in 1..Len(stances) : stances[k] = s) - 1]

Raised(err, key) == [err |-> err, key |-> key, X |-> <<>>, Y |-> <<>>]

Returned(X, Y) == [err |-> NoError, key |-> NoKey, X |-> X, Y |-> Y]

\* The filter of lines 162-163 left out: df = orig whatever the topic.
retained_orig(df, topic) == df.recs

\* The rows the label encoding of line 167 walks, in order.
retained(df, topic) == IF topic # None THEN loc(df.recs, topic) ELSE df.recs

\* X = df.Tweet.unique() in place of df.Tweet.values: repeated tweets dropped.
Tweet_unique(recs) ==
  LET first == {k \in 1..Len(recs) :
                  \A j \in 1..(k - 1) : clean_ascii(recs[j].Tweet) # clean_ascii(recs[k].Tweet)}
  IN List([k \in 1..Cardinality(first) |-> clean_ascii(recs[Nth(first, k)].Tweet)])

\* X = df.Tweet.values
Tweet_values(recs) == List([k \in 1..Len(recs) |-> clean_ascii(recs[k].Tweet)])

\* Y = np.array([class_nums[s] for s in df.Stance])
encode(recs) == List([k \in 1..Len(recs) |-> class_nums[recs[k].Stance]])

\* The labels read from the whole file in place of the filtered one:
\* Y = np.array([class_nums[s] for s in orig.Stance])
_stance_orig_Stance(df, topic) ==
  IF "Tweet" \notin df.cols THEN Raised("KeyError", "Tweet")
  ELSE IF \E k \in 1..Len(df.recs) : IsNaN(df.recs[k].Tweet)
  THEN Raised("TypeError", NoKey)
  ELSE IF topic # None /\ "Target" \notin df.cols THEN Raised("KeyError", "Target")
  ELSE LET d == retained(df, topic)
           o == df.recs
           bad == {k \in 1..Len(o) : o[k].Stance \notin DOMAIN class_nums}
       IN IF "Stance" \notin df.cols THEN Raised("AttributeError", "Stance")
          ELSE IF bad # {}
          THEN Raised("KeyError", o[CHOOSE k \in bad : \A j \in bad : k <= j].Stance)
          ELSE Returned(Tweet_values(d), encode(o))

\* _stance(path, topic) on the file at path: what it returns or raises.
_stance(df, topic) ==
  IF "Tweet" \notin df.cols THEN Raised("KeyError", "Tweet")
  ELSE IF \E k \in 1..Len(df.recs) : IsNaN(df.recs[k].Tweet)
  THEN Raised("TypeError", NoKey)
  ELSE IF topic # None /\ "Target" \notin df.cols THEN Raised("KeyError", "Target")
  ELSE LET d == retained(df, topic)
           bad == {k \in 1..Len(d) : d[k].Stance \notin DOMAIN class_nums}
       IN IF "Stance" \notin df.cols THEN Raised("AttributeError", "Stance")
          ELSE IF bad # {}
          THEN Raised("KeyError", d[CHOOSE k \in bad : \A j \in bad : k <= j].Stance)
          ELSE Returned(Tweet_values(d), encode(d))

\* ------------------------------------------------------------- the calls
NoCall == [fn |-> "none", path |-> "none", topic |-> None, seed |-> Undefined,
           res |-> Raised(NoError, NoKey)]

\* ------------------------------------------------------ train_test_split
\* The generator behind np.random.RandomState, abstracted to a small linear
\* congruential one: what the loader relies on is that the permutation is a
\* function of the generator's state alone.
next_state(s) == (s * 75 + 74) % 65537

\* RandomState(seed): a fresh generator, its state a function of the seed.
RandomState(s) == next_state(s)

swap(arr, a, b) == [arr EXCEPT ![a] = arr[b], ![b] = arr[a]]

\* rng.shuffle: for i in reversed(range(1, n)): j = rng.randint(0, i + 1); swap
RECURSIVE shuffle(_, _, _)
shuffle(arr, i, s) ==
  IF i <= 1 THEN [perm |-> arr, state |-> s]
  ELSE shuffle(swap(arr, i, (s % i) + 1), i - 1, next_state(s))

\* rng.permutation(n)
permutation(s, n) == shuffle(List([k \in 1..n |-> k]), n, s)

\* floor in place of ceil.
n_test_floor(n) == (n * TestSizeNum) \div TestSizeDen

\* test_size left out: the default 0.25, n_test = ceil(n / 4).
n_test_default(n) == (n + 3) \div 4

\* _validate_shuffle_split: n_test = ceil(test_size * n_samples). In double
\* arithmetic ceil(0.2 * n) = (n + 4) div 5 for every n below 200000.
n_test_of(n) == (n * TestSizeNum + TestSizeDen - 1) \div TestSizeDen

\* ShuffleSplit._iter_indices: ind_test = permutation[:n_test]
ind_test(perm, n_test) == SubSeq(perm, 1, n_test)

\* permutation[:n_train] in place of permutation[n_test:(n_test + n_train)].
ind_train_from_start(perm, n_test, n_train) == SubSeq(perm, 1, n_train)

\* ind_train = permutation[n_test:(n_test + n_train)]
ind_train(perm, n_test, n_train) == SubSeq(perm, n_test + 1, n_test + n_train)

\* safe_indexing(a, indices)
take(a, ind) == List([k \in 1..Len(ind) |-> a[ind[k]]])

\* train_test_split(X, Y, test_size=0.2, random_state=random_state), with the
\* process-wide generator rng that random_state=None draws from. The result
\* carries the index arrays the four returned arrays were taken with. An
\* empty train set (n_samples 0 or 1) raises ValueError, as scikit-learn's
\* _validate_shuffle_split does.
train_test_split(X, Y, random_state, rng) ==
  LET n == Len(X)
      n_test == n_test_of(n)
      n_train == n - n_test
      fresh == random_state # {}
      s0 == IF fresh THEN RandomState(CHOOSE v \in random_state : TRUE) ELSE rng
      p == permutation(s0, n)
      test == ind_test(p.perm, n_test)
      train == ind_train(p.perm, n_test, n_train)
  IN IF n_train = 0
     THEN [err |-> "ValueError", train |-> <<>>, test |-> <<>>, tr_text |-> <<>>,
           va_text |-> <<>>, tr_sent |-> <<>>, va_sent |-> <<>>, rng |-> rng]
     ELSE [err |-> NoError, train |-> train, test |-> test,
           tr_text |-> take(X, train), va_text |-> take(X, test),
           tr_sent |-> take(Y, train), va_sent |-> take(Y, test),
           rng |-> IF fresh THEN rng ELSE p.state]

\* ---------------------------------------------------------------- stance
\* The validation texts returned in the place of the test texts:
\* return (trX, trY), (vaX, vaY), (vaX, )
Outcome_vaX_as_teX(err, key, trX, trY, vaX, vaY, teX, tr_idx, va_idx, rng) ==
  [ret |-> [err |-> err, key |-> key, trX |-> trX, trY |-> trY, vaX |-> vaX,
            vaY |-> vaY, teX |-> vaX, tr_idx |-> tr_idx, va_idx |-> va_idx],
   rng |-> rng]

\* The outcome of a stance call: what it returns or raises (ret), with the
\* index arrays of the split, and the process-wide generator it leaves.
Outcome(err, key, trX, trY, vaX, vaY, teX, tr_idx, va_idx, rng) ==
  [ret |-> [err |-> err, key |-> key, trX |-> trX, trY |-> trY, vaX |-> vaX,
            vaY |-> vaY, teX |-> teX, tr_idx |-> tr_idx, va_idx |-> va_idx],
   rng |-> rng]

Failed(err, key, rng) == Outcome(err, key, <<>>, <<>>, <<>>, <<>>, <<>>, <<>>, <<>>, rng)

\* for t, s in zip(a, b): xs.append(t)
zip_first(a, b) == List([k \in 1..Min(Len(a), Len(b)) |-> a[k]])

\* The labels paired one position off their texts.
zip_second_shifted(a, b) ==
  List([k \in 1..Min(Len(a), Len(b)) |-> b[(k % Min(Len(a), Len(b))) + 1]])

\* for t, s in zip(a, b): ys.append(s)
zip_second(a, b) == List([k \in 1..Min(Len(a), Len(b)) |-> b[k]])

\* random_state left out: None, the process-wide generator.
random_state_default(seed_) == {}

\* random_state=seed
random_state_of(seed_) == seed_

\* stance(data_dir, topic) on the two files of data_dir, with the global seed
\* and the process-wide generator of the moment of the call.
stance(train, test, topic, seed_, rng) ==
  LET tr == _stance(train, topic)
      te == _stance(test, topic)
      sp == train_test_split(tr.X, tr.Y, random_state_of(seed_), rng)
  IN IF tr.err # NoError THEN Failed(tr.err, tr.key, rng)
     ELSE IF te.err # NoError THEN Failed(te.err, te.key, rng)
     ELSE IF seed_ = Undefined THEN Failed("NameError", "seed", rng)
     ELSE IF sp.err # NoError THEN Failed(sp.err, NoKey, rng)
     ELSE Outcome(NoError, NoKey,
                  zip_first(sp.tr_text, sp.tr_sent), zip_second(sp.tr_text, sp.tr_sent),
                  zip_first(sp.va_text, sp.va_sent), zip_second(sp.va_text, sp.va_sent),
                  te.X, sp.train, sp.test, sp.rng)

Path(name) == IF name = "train" THEN trainfile ELSE testfile

CallPrivateStance(name, topic) ==
  /\ out' = [fn |-> "_stance", path |-> name, topic |-> topic, seed |-> Undefined,
             res |-> _stance(Path(name), topic)]
  /\ prev' = NoCall
  /\ UNCHANGED <<trainfile, testfile, seed, np_random>>

CallStance(topic) ==
  LET r == stance(trainfile, testfile, topic, seed, np_random)
  IN /\ out' = [fn |-> "stance", path |-> "data_dir", topic |-> topic, seed |-> seed,
                res |-> r.ret]
     /\ prev' = IF out.fn = "stance" THEN out ELSE NoCall
     /\ np_random' = r.rng
     /\ UNCHANGED <<trainfile, testfile, seed>>

\* seed = 3535999445 (and --seed 42, 43, 44 in the experiments)
SetSeed(s) ==
  /\ seed' = {s}
  /\ UNCHANGED <<trainfile, testfile, np_random, out, prev>>

Init ==
  /\ trainfile \in Files
  /\ testfile \in TestFiles
  /\ seed = Undefined
  /\ np_random = 0
  /\ out = NoCall
  /\ prev = NoCall

Next ==
  \/ \E s \in Seeds : SetSeed(s)
  \/ \E name \in {"train", "test"}, topic \in TopicArgs : CallPrivateStance(name, topic)
  \/ \E topic \in TopicArgs : CallStance(topic)

Spec == Init /\ [][Next]_vars

\* The training files of the split family: valid rows, both topics, repeated
\* tweets, every length up to MaxTrain.
SplitRow(k, v) ==
  Row(<<65 + (k % 2), 233>>,
      IF (k + v) % 3 = 0 THEN "Hillary Clinton" ELSE "Atheism",
      stances[((k * (v + 1)) % Len(stances)) + 1])

SplitFiles ==
  { Frame(AllCols, [k \in 1..n |-> SplitRow(k, v)]) : n \in 0..MaxTrain, v \in 0..1 }

InitSplit ==
  /\ trainfile \in SplitFiles
  /\ testfile \in TestFiles
  /\ seed = Undefined
  /\ np_random = 0
  /\ out = NoCall
  /\ prev = NoCall

SpecSplit == InitSplit /\ [][Next]_vars

\* ------------------------------------------------------------ the claims
FileOf(call) == IF call.path = "train" THEN trainfile ELSE testfile

Loaded == out.fn = "_stance" /\ out.res.err = NoError

\* The rows of df the topic keeps, by position in the file.
Kept(df, topic) == {k \in 1..Len(df.recs) : topic = None \/ df.recs[k].Target = topic}

\* C1: when _stance returns (X, Y), X and Y have the same length and their
\* i-th entries both come from the i-th kept row of the file, in file order:
\* no reordering, duplication or omission.
C1_RowOrderPreserved ==
  Loaded =>
    LET df == FileOf(out)
        K == Kept(df, out.topic)
        X == out.res.X
        Y == out.res.Y
    IN /\ Len(X) = Len(Y)
       /\ Len(X) = Cardinality(K)
       /\ \A i \in 1..Len(X) :
            /\ X[i] = clean_ascii(df.recs[Nth(K, i)].Tweet)
            /\ Y[i] = class_nums[df.recs[Nth(K, i)].Stance]

\* A topic load that kept three rows or more around a dropped one, two of the
\* kept rows with the same tweet.
C1_Witness ==
  /\ Loaded
  /\ out.topic = "Atheism"
  /\ Len(out.res.X) >= 3
  /\ \E a, b \in 1..Len(out.res.X) : a # b /\ out.res.X[a] = out.res.X[b]
  /\ LET K == Kept(FileOf(out), out.topic)
     IN \E k \in 1..Len(FileOf(out).recs) : k \notin K /\ Nth(K, 1) < k /\ k < Nth(K, 3)
\* The original tweet of the i-th kept row of the file of the last call.
Original(i) == FileOf(out).recs[Nth(Kept(FileOf(out), out.topic), i)].Tweet

Ascii(t) == {j \in 1..Len(t) : t[j] < AsciiLimit}

\* C2: every text _stance returns holds no character with code point >= 128
\* and is the row's original Tweet with exactly those characters removed:
\* every character below 128 is kept, in its original order.
C2_OnlyNonAsciiRemoved ==
  Loaded =>
    \A i \in 1..Len(out.res.X) :
      LET x == out.res.X[i]
          t == Original(i)
      IN /\ \A j \in 1..Len(x) : x[j] < AsciiLimit
         /\ Len(x) = Cardinality(Ascii(t))
         /\ \A j \in 1..Len(x) : x[j] = t[Nth(Ascii(t), j)]

\* A returned text that lost the character 128 and kept the character 127,
\* and one that kept two characters around a removed one.
C2_Witness ==
  /\ Loaded
  /\ \E i \in 1..Len(out.res.X) :
       /\ \E j \in 1..Len(Original(i)) : Original(i)[j] = AsciiLimit
       /\ out.res.X[i] = <<AsciiLimit - 1>>
  /\ \E i \in 1..Len(out.res.X) :
       /\ Len(out.res.X[i]) = 2
       /\ Len(Original(i)) = 3
       /\ Original(i)[2] >= AsciiLimit

Code(s) ==
  CASE s = "AGAINST" -> 0 [] s = "FAVOR" -> 1 [] s = "NONE" -> 2 [] s = "UNKNOWN" -> 3

\* The file has the columns the call reads and no empty Tweet, so that the
\* load reaches the label encoding.
ReachesEncoding(df, topic) ==
  /\ {"Tweet", "Stance"} \subseteq df.cols
  /\ topic # None => "Target" \in df.cols
  /\ \A k \in 1..Len(df.recs) : df.recs[k].Tweet # <<>>

\* The kept rows whose Stance is outside the fixed set.
Unrecognized(df, topic) ==
  {k \in Kept(df, topic) : df.recs[k].Stance \notin {"AGAINST", "FAVOR", "NONE", "UNKNOWN"}}

\* C3: the encoding is exactly AGAINST->0, FAVOR->1, NONE->2, UNKNOWN->3; a
\* load never returns when a kept row has another Stance (no default code),
\* and when the load reaches the encoding it fails on the first such row with
\* the lookup's KeyError, which carries the offending value.
C3_StanceEncoding ==
  out.fn = "_stance" =>
    LET df == FileOf(out)
        K == Kept(df, out.topic)
        U == Unrecognized(df, out.topic)
    IN /\ Loaded =>
            /\ U = {}
            /\ \A i \in 1..Len(out.res.Y) :
                 out.res.Y[i] = Code(df.recs[Nth(K, i)].Stance)
       /\ (ReachesEncoding(df, out.topic) /\ U # {}) =>
            /\ out.res.err = "KeyError"
            /\ out.res.key = df.recs[Nth(U, 1)].Stance

\* A load that failed on "MAYBE" in the second kept row, the first one valid.
C3_Witness ==
  /\ out.fn = "_stance"
  /\ out.res.err = "KeyError"
  /\ out.res.key = "MAYBE"
  /\ LET df == FileOf(out)
     IN /\ ReachesEncoding(df, out.topic)
        /\ Cardinality(Kept(df, out.topic)) = 2
        /\ Nth(Unrecognized(df, out.topic), 1) = 2

\* C4: with a topic, a row is kept if and only if its Target is the topic
\* string exactly (case matters); with no topic every row is kept; and
\* loading the file that holds only the kept rows, with the same topic, gives
\* the same result as loading the file.
C4_TopicFilterExact ==
  (out.fn = "_stance" /\ (out.topic # None => "Target" \in FileOf(out).cols)) =>
    LET df == FileOf(out)
        d == retained(df, out.topic)
        once == [cols |-> df.cols, recs |-> d]
    IN /\ {d[k].i : k \in 1..Len(d)} = Kept(df, out.topic)
       /\ Len(d) = Cardinality(Kept(df, out.topic))
       /\ retained(once, out.topic) = d
       /\ Loaded => (Len(out.res.X) = Len(d) /\ _stance(once, out.topic) = out.res)

\* A topic load that kept a row and dropped one whose Target differs from
\* the topic in case only.
C4_Witness ==
  /\ Loaded
  /\ out.topic = "Atheism"
  /\ Len(out.res.X) = 1
  /\ \E k \in 1..Len(FileOf(out).recs) : FileOf(out).recs[k].Target = "atheism"

Split == out.fn = "stance" /\ out.res.err = NoError

\* What _stance returns for the training file with the topic of the last call.
TrainXY == _stance(trainfile, out.topic)

Range(f) == {f[k] : k \in DOMAIN f}

\* round(valFraction * n), for the fraction TestSizeNum / TestSizeDen.
Round(n) == (2 * n * TestSizeNum + TestSizeDen) \div (2 * TestSizeDen)

\* C5: two stance calls on the same files with the same topic and the same
\* seed return the same train and validation partitions: same items, same
\* order, same labels.
C5_SplitDeterministic ==
  (out.fn = "stance" /\ prev.fn = "stance" /\ out.topic = prev.topic
     /\ out.seed = prev.seed) => out.res = prev.res

\* Two successful calls in a row with one topic and one seed, on five rows
\* or more, whose validation rows are not the first rows of the file.
C5_Witness ==
  /\ Split
  /\ prev.fn = "stance"
  /\ prev.res.err = NoError
  /\ out.topic = prev.topic
  /\ out.seed = prev.seed
  /\ Len(out.res.trX) + Len(out.res.vaX) >= 5
  /\ out.res.va_idx[1] # 1

\* C6: train and validation share no row of the filtered training file and
\* together hold every row _stance returned for it, each once.
C6_DisjointAndCovering ==
  Split =>
    LET T == Range(out.res.tr_idx)
        V == Range(out.res.va_idx)
    IN /\ T \cap V = {}
       /\ T \cup V = 1..Len(TrainXY.X)
       /\ Cardinality(T) = Len(out.res.trX)
       /\ Cardinality(V) = Len(out.res.vaX)
       /\ \A k \in 1..Len(out.res.trX) : out.res.trX[k] = TrainXY.X[out.res.tr_idx[k]]
       /\ \A k \in 1..Len(out.res.vaX) : out.res.vaX[k] = TrainXY.X[out.res.va_idx[k]]

\* A split under a topic that dropped rows, with one text both in train and
\* in validation (two rows with the same tweet).
C6_Witness ==
  /\ Split
  /\ out.topic = "Atheism"
  /\ Len(TrainXY.X) < Len(trainfile.recs)
  /\ Len(out.res.vaX) >= 2
  /\ \E a \in 1..Len(out.res.trX), b \in 1..Len(out.res.vaX) : out.res.trX[a] = out.res.vaX[b]

\* C7: len(train) + len(val) is the number of rows _stance returns for the
\* training file, len(val) is within 1 of round(valFraction * total), and 10
\* rows give 2 validation rows and 8 training rows.
C7_SplitSizes ==
  Split =>
    LET n == Len(TrainXY.X)
        nv == Len(out.res.vaX)
        nt == Len(out.res.trX)
    IN /\ nt + nv = n
       /\ Len(out.res.trY) = nt
       /\ Len(out.res.vaY) = nv
       /\ nv - Round(n) \in {0 - 1, 0, 1}
       /\ n = 10 => (nv = 2 /\ nt = 8)

\* A split of ten rows.
C7_Witness == Split /\ Len(TrainXY.X) = 10 /\ Len(out.res.vaX) = 2

\* C8 as stated: exactly round(valFraction * n) items go to validation.
C8_ValidationIsRound ==
  Split => Len(out.res.vaX) = Round(Len(TrainXY.X))

\* C8, amended: exactly ceil(valFraction * n) items go to validation and the
\* remaining n - ceil(valFraction * n) go to train.
C8_ValidationIsCeil ==
  Split =>
    LET n == Len(TrainXY.X)
        c == CHOOSE m \in 0..n : m * TestSizeDen >= n * TestSizeNum
                                  /\ (m - 1) * TestSizeDen < n * TestSizeNum
    IN /\ Len(out.res.vaX) = c
       /\ Len(out.res.trX) = n - c

\* A split whose validation size is not round(valFraction * n).
C8_Witness == Split /\ Len(out.res.vaX) # Round(Len(TrainXY.X))

\* The file has the columns a load with this topic reads apart from Stance,
\* and no empty Tweet.
ReadableWithoutLabels(df, topic) ==
  /\ "Tweet" \in df.cols
  /\ topic # None => "Target" \in df.cols
  /\ \A k \in 1..Len(df.recs) : df.recs[k].Tweet # <<>>

\* C9: loading the test set needs no valid stance labels: a stance call whose
\* training file loads and splits succeeds whatever the test file's Stance
\* column is (absent, empty, outside the fixed set).
C9_TestNeedsNoLabels ==
  (/\ out.fn = "stance"
   /\ out.seed # Undefined
   /\ TrainXY.err = NoError
   /\ Len(TrainXY.X) - n_test_of(Len(TrainXY.X)) > 0
   /\ ReadableWithoutLabels(testfile, out.topic))
    => out.res.err = NoError

\* C10: a load whose topic keeps no row of a file ends in an error, and no
\* call returns an empty text sequence for any group.
C10_EmptyDatasetRaised ==
  /\ (out.fn = "_stance" /\ Kept(FileOf(out), out.topic) = {}) => out.res.err # NoError
  /\ (out.fn = "stance" /\ (Kept(trainfile, out.topic) = {} \/ Kept(testfile, out.topic) = {}))
       => out.res.err # NoError
  /\ Loaded => out.res.X # <<>>
  /\ Split => (out.res.trX # <<>> /\ out.res.vaX # <<>> /\ out.res.teX # <<>>)

\* The columns the load of a file requires: the training file needs its
\* labels, the test file does not.
Required(name) == IF name = "train" THEN {"Tweet", "Target", "Stance"} ELSE {"Tweet", "Target"}

LacksColumn(name) == ~(Required(name) \subseteq Path(name).cols)

\* C11: a file that lacks any of its required columns makes the load fail,
\* with or without a topic filter: neither a _stance call on such a file nor
\* a stance call over such a file ever returns a result.
C11_MissingColumnFails ==
  /\ (out.fn = "_stance" /\ LacksColumn(out.path)) => out.res.err # NoError
  /\ (out.fn = "stance" /\ (LacksColumn("train") \/ LacksColumn("test")))
       => out.res.err # NoError

\* The row of the training file behind the j-th entry of the filtered
\* training set.
TrainRow(j) == trainfile.recs[Nth(Kept(trainfile, out.topic), j)]

\* C12: in the train and the validation group a stance call returns, text and
\* label stay index-aligned: the i-th text and the i-th label are the cleaned
\* Tweet and the encoded Stance of one and the same row of the filtered
\* training file.
C12_TextLabelAligned ==
  Split =>
    /\ Len(out.res.trX) = Len(out.res.trY)
    /\ Len(out.res.vaX) = Len(out.res.vaY)
    /\ \A i \in 1..Len(out.res.trX) :
         /\ out.res.trX[i] = clean_ascii(TrainRow(out.res.tr_idx[i]).Tweet)
         /\ out.res.trY[i] = Code(TrainRow(out.res.tr_idx[i]).Stance)
    /\ \A i \in 1..Len(out.res.vaX) :
         /\ out.res.vaX[i] = clean_ascii(TrainRow(out.res.va_idx[i]).Tweet)
         /\ out.res.vaY[i] = Code(TrainRow(out.res.va_idx[i]).Stance)

\* A split with a topic whose train group holds the same text under two
\* different labels, and whose validation group holds a labelled text too.
C12_Witness ==
  /\ Split
  /\ out.topic # None
  /\ out.res.vaX # <<>>
  /\ \E a, b \in 1..Len(out.res.trX) :
       out.res.trX[a] = out.res.trX[b] /\ out.res.trY[a] # out.res.trY[b]

\* C13: the result of a stance call depends only on its arguments and the two
\* files, never on process-wide state: two successive stance calls with the
\* same arguments that both return, return the same groups, whatever happened
\* to the global seed in between.
C13_NoAmbientState ==
  (/\ out.fn = "stance"
   /\ prev.fn = "stance"
   /\ out.topic = prev.topic
   /\ out.res.err = NoError
   /\ prev.res.err = NoError)
    => out.res = prev.res

\* The rows of a file, as a set.
RowsOf(df) == {df.recs[k] : k \in 1..Len(df.recs)}

\* C14: the test group of a stance call is never mixed with or derived from
\* the labelled set: the test texts are the cleaned Tweets of the kept rows of
\* the test file, in file order; every train and validation item is the
\* cleaned Tweet and the encoded Stance of a row of the training file; and the
\* test group is the same for every seed.
C14_TestGroupApart ==
  Split =>
    LET K == Kept(testfile, out.topic)
    IN /\ Len(out.res.teX) = Cardinality(K)
       /\ \A i \in 1..Len(out.res.teX) :
            out.res.teX[i] = clean_ascii(testfile.recs[Nth(K, i)].Tweet)
       /\ \A i \in 1..Len(out.res.trX) : \E r \in RowsOf(trainfile) :
            out.res.trX[i] = clean_ascii(r.Tweet) /\ out.res.trY[i] = Code(r.Stance)
       /\ \A i \in 1..Len(out.res.vaX) : \E r \in RowsOf(trainfile) :
            out.res.vaX[i] = clean_ascii(r.Tweet) /\ out.res.vaY[i] = Code(r.Stance)
       /\ (prev.fn = "stance" /\ prev.res.err = NoError /\ prev.topic = out.topic)
            => out.res.teX = prev.res.teX

\* Two successive splits of the same files with the same topic under two
\* seeds that order the training rows differently, with a test group that is
\* not empty.
C14_Witness ==
  /\ Split
  /\ prev.fn = "stance"
  /\ prev.res.err = NoError
  /\ prev.topic = out.topic
  /\ prev.seed # out.seed
  /\ prev.res.tr_idx # out.res.tr_idx
  /\ out.res.teX # <<>>

\* The positions of the rows of df whose Target equals the topic.
OnTopic(df, topic) == {k \in 1..Len(df.recs) : df.recs[k].Target = topic}

\* C15: a topic given to stance filters both files, with the same topic and
\* before the split: the rows that take part in the random split are exactly
\* the rows of the training file whose Target equals the topic, and every
\* returned train, validation and test item comes from a row of its file
\* whose Target equals the topic.
C15_TopicFiltersBothFiles ==
  (Split /\ out.topic # None) =>
    LET Ktr == OnTopic(trainfile, out.topic)
        Kte == OnTopic(testfile, out.topic)
    IN /\ Range(out.res.tr_idx) \cup Range(out.res.va_idx) = 1..Cardinality(Ktr)
       /\ Len(out.res.trX) + Len(out.res.vaX) = Cardinality(Ktr)
       /\ \A i \in 1..Len(out.res.trX) : \E k \in Ktr :
            /\ out.res.trX[i] = clean_ascii(trainfile.recs[k].Tweet)
            /\ out.res.trY[i] = Code(trainfile.recs[k].Stance)
       /\ \A i \in 1..Len(out.res.vaX) : \E k \in Ktr :
            /\ out.res.vaX[i] = clean_ascii(trainfile.recs[k].Tweet)
            /\ out.res.vaY[i] = Code(trainfile.recs[k].Stance)
       /\ Len(out.res.teX) = Cardinality(Kte)
       /\ \A i \in 1..Len(out.res.teX) : \E k \in Kte :
            out.res.teX[i] = clean_ascii(testfile.recs[k].Tweet)

\* A split with a topic over a training file and a test file that both hold
\* rows of another topic next to the rows the topic keeps.
C15_Witness ==
  /\ Split
  /\ out.topic # None
  /\ OnTopic(trainfile, out.topic) # 1..Len(trainfile.recs)
  /\ OnTopic(testfile, out.topic) # 1..Len(testfile.recs)
  /\ out.res.teX # <<>>

\* The rows of df whose Stance is outside the fixed set, kept or not.
OutsideLabels(df) ==
  {k \in 1..Len(df.recs) : df.recs[k].Stance \notin {"AGAINST", "FAVOR", "NONE", "UNKNOWN"}}

\* C16: label validation covers only the rows the topic filter retains: a
\* _stance call that reaches the encoding fails exactly when a row with a
\* Stance outside the fixed set is retained, that is, when no topic is given
\* or the row's Target equals the topic; such a row with another Target does
\* not make the call fail, while the same file fails without a topic.
C16_ValidationAfterFilter ==
  (out.fn = "_stance" /\ ReachesEncoding(FileOf(out), out.topic)) =>
    LET df == FileOf(out)
        B == OutsideLabels(df)
        R == {k \in B : out.topic = None \/ df.recs[k].Target = out.topic}
    IN /\ R = {} => out.res.err = NoError
       /\ R # {} => out.res.err = "KeyError"
       /\ B # {} => _stance(df, None).err = "KeyError"

\* A load with a topic that returned the rows of the topic although the file
\* holds a row of another Target whose Stance is outside the fixed set.
C16_Witness ==
  /\ Loaded
  /\ out.topic # None
  /\ out.res.X # <<>>
  /\ \E k \in OutsideLabels(FileOf(out)) : FileOf(out).recs[k].Target # out.topic
====
